---------------------------- MODULE Spec2Model ----------------------------
(***************************************************************************)
(* Model of download_covers.py: scrape the covers listing page, normalize  *)
(* and dedupe the gallery hrefs, save them to urls.json and download each  *)
(* image into the output directory.                                        *)
(*                                                                         *)
(* Strings are sequences of tokens.  A token is a run of characters that   *)
(* no string operation of the program ever cuts: "/", "?", "#", a scheme   *)
(* ("https:"), a host, a path word ("sites", "a") or a dotted extension    *)
(* (".png", ".PNG").  Substring search, split, startswith, endswith and    *)
(* slicing on token sequences then behave as Python's do on characters.    *)
(***************************************************************************)
EXTENDS Integers, Sequences, FiniteSets, TLC

VARIABLES
    page,            \* what the listing page serves: fetch_ok, has_container, hrefs
    initial_fs,      \* the filesystem found at start: exists, files, urls_json
    pc,              \* position of main()
    output_exists,   \* whether the directory output/ exists
    files,           \* output directory: filename |-> body
    raw_urls,        \* main: raw_urls
    normalized_urls, \* main: normalized_urls
    unique_urls,     \* main: unique_urls
    urls_json,       \* urls.json: present, content
    idx,             \* main: position of the download loop (enumerate index i)
    success_count,   \* main: success_count
    skip_count,      \* main: skip_count
    gets,            \* image URLs an HTTP GET was issued for, in order
    log              \* one report per URL processed by the download loop

vars == << page, initial_fs, pc, output_exists, files, raw_urls, normalized_urls,
           unique_urls, urls_json, idx, success_count, skip_count, gets, log >>

(***************************************************************************)
(* Bounds                                                                  *)
(***************************************************************************)
\* Largest number of gallery anchors on the listing page.
MaxLinks == 3

(***************************************************************************)
(* Python string operations on token sequences                             *)
(***************************************************************************)
\* s[i:] with a 1-based first kept position
DropFirst(s, n) == SubSeq(s, n + 1, Len(s))

\* s[:-n]
DropLast(s, n) == SubSeq(s, 1, Len(s) - n)

\* str.startswith
StartsWith(s, p) ==
    /\ Len(p) <= Len(s)
    /\ SubSeq(s, 1, Len(p)) = p

\* str.endswith
EndsWith(s, p) ==
    /\ Len(p) <= Len(s)
    /\ SubSeq(s, Len(s) - Len(p) + 1, Len(s)) = p

\* str.find, 1-based; 0 when sep does not occur in s
Find(s, sep) ==
    LET hits == { i \in 1..(Len(s) - Len(sep) + 1) : SubSeq(s, i, i + Len(sep) - 1) = sep }
    IN  IF hits = {} THEN 0 ELSE CHOOSE i \in hits : \A j \in hits : i <= j

\* sep in s
Contains(s, sep) == Find(s, sep) # 0

\* str.split(sep) cuts s at the non-overlapping occurrences of sep, found left
\* to right.  s.split(sep)[0]: what precedes the first occurrence
SplitFirst(s, sep) ==
    IF Find(s, sep) = 0 THEN s ELSE SubSeq(s, 1, Find(s, sep) - 1)

\* s.split(sep)[1], for s that holds sep: what lies between the first occurrence
\* and the next one that starts after it has ended
SplitSecond(s, sep) == SplitFirst(DropFirst(s, Find(s, sep) + Len(sep) - 1), sep)

\* s.split(tok)[-1] for a separator of one token: what follows its last occurrence
SplitLast(s, tok) ==
    LET hits == { i \in 1..Len(s) : s[i] = tok }
    IN  IF hits = {} THEN s
        ELSE DropFirst(s, CHOOSE i \in hits : \A j \in hits : j <= i)

\* seq[-1]
Last(seq) == seq[Len(seq)]

\* str.lower on one token: the extensions are the only tokens with capitals
Lower(tok) ==
    CASE tok = ".PNG"  -> ".png"
      [] tok = ".Png"  -> ".png"
      [] tok = ".JPG"  -> ".jpg"
      [] tok = ".JPEG" -> ".jpeg"
      [] tok = ".WEBP" -> ".webp"
      [] OTHER         -> tok

(***************************************************************************)
(* urllib.parse                                                            *)
(***************************************************************************)
Schemes == { "https:", "http:" }

HasScheme(url) == Len(url) >= 3 /\ url[1] \in Schemes /\ url[2] = "/" /\ url[3] = "/"

\* Position of the first token of url from position n on that is in stops,
\* Len(url) + 1 when there is none
FirstOf(url, n, stops) ==
    LET hits == { i \in n..Len(url) : url[i] \in stops }
    IN  IF hits = {} THEN Len(url) + 1 ELSE CHOOSE i \in hits : \A j \in hits : i <= j

\* urlparse(url).path: what follows the netloc, up to the query or fragment
UrlPath(url) ==
    LET start == IF HasScheme(url) THEN FirstOf(url, 4, { "/", "?", "#" }) ELSE 1
        stop  == FirstOf(url, start, { "?", "#" })
    IN  SubSeq(url, start, stop - 1)

BaseUrl == << "https:", "/", "/", "gameinformer.com" >>

\* urljoin(base, url) for a base with an empty path and a url without scheme:
\* a rooted path replaces the base's path, any other is merged under "/"
urljoin(base, url) ==
    IF url # << >> /\ url[1] = "/" THEN base \o url ELSE base \o << "/" >> \o url

\* os.path.basename: what follows the last "/"
basename(path) == SplitLast(path, "/")

(***************************************************************************)
(* normalize_url                                                           *)
(***************************************************************************)
FilesMarker == << "/", "sites", "/", "default", "/", "files", "/" >>

StylesPrefix == << "styles", "/", "no_compression", "/", "public", "/" >>

JpgWebp == << ".jpg", ".webp" >>

ImageExts == { ".jpg", ".jpeg", ".png", ".webp" }

\* url.startswith('http')
StartsWithHttp(url) == url # << >> /\ url[1] \in Schemes

\* re.sub(r'\.(jpg|jpeg|png|webp)$', '', s, flags=re.IGNORECASE)
StripImageExt(s) ==
    IF s # << >> /\ Lower(Last(s)) \in ImageExts THEN DropLast(s, 1) ELSE s

\* lines 43-52: ensure the path ends with .jpg.webp
NormalizeExt(path_after) ==
    IF EndsWith(path_after, JpgWebp) THEN path_after
    ELSE IF EndsWith(path_after, << ".webp" >>) THEN DropLast(path_after, 1) \o JpgWebp
    ELSE StripImageExt(path_after) \o JpgWebp

\* line 34: parsed.path.split('/sites/default/files/')[1]
PathAfterMarker(path) == SplitSecond(path, FilesMarker)

\* lines 39-41
StripStylesPrefix(path_after) ==
    IF StartsWith(path_after, StylesPrefix)
    THEN DropFirst(path_after, Len(StylesPrefix))
    ELSE path_after

\* lines 21-22
Absolute(url) == IF StartsWithHttp(url) THEN url ELSE urljoin(BaseUrl, url)

normalize_url(url0) ==
    LET url  == Absolute(url0)
        path == UrlPath(url)
    IN  IF ~Contains(path, FilesMarker) THEN url
        ELSE LET after1 == PathAfterMarker(path)
                 after2 == SplitFirst(SplitFirst(after1, << "?" >>), << "#" >>)
                 after3 == StripStylesPrefix(after2)
                 after4 == NormalizeExt(after3)
             IN  BaseUrl \o FilesMarker \o StylesPrefix \o after4


(***************************************************************************)
(* The URLs of the model                                                   *)
(***************************************************************************)
OtherUrl == << "https:", "/", "/", "other.example.com" >>

\* Gallery hrefs of the listing page; << >> is an anchor without href
PageHrefs ==
    { << >>,
      FilesMarker \o << "a", "/", "c", ".png" >>,
      BaseUrl \o FilesMarker \o StylesPrefix \o << "a", "/", "c", ".webp" >>,
      FilesMarker \o << "b", "/", "c", ".jpg" >>,
      FilesMarker \o << "a", "/", "d", ".PNG" >>,
      OtherUrl \o << "/", "dir", "/" >>,
      OtherUrl \o << "/", "e", ".jpg" >> }

\* Raw URLs for normalize_url: host, lead of the path, directory, stem,
\* extensions, query or fragment
RawHosts == { << >>, BaseUrl, OtherUrl }

RawLeads ==
    { << "/" >>,
      FilesMarker,
      FilesMarker \o StylesPrefix,
      FilesMarker \o Tail(FilesMarker),
      FilesMarker \o Tail(FilesMarker) \o StylesPrefix,
      FilesMarker \o << "a" >> \o FilesMarker }

RawDirs == { << >>, << "a", "/" >> }

RawStems == { << >>, << "c" >> }

RawExts ==
    { << >>, << ".png" >>, << ".PNG" >>, << ".jpeg" >>, << ".webp" >>, << ".WEBP" >>,
      << ".jpg", ".webp" >>, << ".jpg", ".WEBP" >>, << ".txt" >> }

RawTails == { << >>, << "?", "q" >>, << "#", "f" >> }

\* hrefs relative to the page, without a leading "/"
RawRelative ==
    { l \o << "c" >> \o e : l \in { << >>, Tail(FilesMarker) }, e \in RawExts }

RawURLs ==
    { h \o l \o d \o s \o e \o t :
        h \in RawHosts, l \in RawLeads, d \in RawDirs, s \in RawStems,
        e \in RawExts, t \in RawTails }
    \cup RawRelative

\* normalize_url, line 159 and lines 93-96 are functions of the URL alone: they
\* are tabulated over the URLs of the model
InputUrls == RawURLs \cup (PageHrefs \ { << >> })

NormalizedOf == [u \in InputUrls |-> normalize_url(u)]

CollectionUrls == { NormalizedOf[u] : u \in InputUrls }

(***************************************************************************)
(* scrape_cover_urls                                                       *)
(***************************************************************************)
\* lines 69-87: raise_for_status and the missing container raise; otherwise the
\* hrefs of the gallery anchors, those missing or empty (<< >>) left out
scrape_cover_urls_NoContainerCheck(p) ==
    IF ~p.fetch_ok THEN [raised |-> TRUE, urls |-> << >>]
    ELSE [raised |-> FALSE, urls |-> SelectSeq(p.hrefs, LAMBDA h : h # << >>)]

scrape_cover_urls(p) ==
    IF ~p.fetch_ok THEN [raised |-> TRUE, urls |-> << >>]
    ELSE IF ~p.has_container THEN [raised |-> TRUE, urls |-> << >>]
    ELSE [raised |-> FALSE, urls |-> SelectSeq(p.hrefs, LAMBDA h : h # << >>)]

(***************************************************************************)
(* The output directory and download_image                                 *)
(***************************************************************************)
\* os.path.exists(output_dir / name): joining an empty name gives the directory
PathExists(dir_exists, fs, name) ==
    IF name = << >> THEN dir_exists ELSE dir_exists /\ name \in DOMAIN fs

\* The bytes a successful GET of url returns: each URL serves its own image
Body(url) == url

\* open(filepath, 'wb') and write
WriteFile(fs, name, body) == (name :> body) @@ fs

\* lines 93-96: the filename download_image derives
DerivedFilename(url) ==
    LET filename == basename(UrlPath(url))
    IN  IF filename = << >> THEN SplitLast(url, "/") ELSE filename

DerivedFilenameOf == [u \in CollectionUrls |-> DerivedFilename(u)]

\* line 159: the filename the download loop checks
LoopFilename(url) == basename(UrlPath(url))

LoopFilenameOf == [u \in CollectionUrls |-> LoopFilename(u)]

\* download_image without its try/except: a failed GET raises
download_image_NoCatch(dir_exists, fs, url, ok) ==
    LET filename == DerivedFilenameOf[url]
    IN  IF PathExists(dir_exists, fs, filename)
        THEN [files |-> fs, gets |-> << >>, ret |-> TRUE, raised |-> FALSE,
              report |-> "skipped"]
        ELSE IF ok
        THEN [files |-> WriteFile(fs, filename, Body(url)), gets |-> << url >>,
              ret |-> TRUE, raised |-> FALSE, report |-> "downloaded"]
        ELSE [files |-> fs, gets |-> << url >>, ret |-> FALSE, raised |-> TRUE,
              report |-> "failed"]

\* lines 90-120; ok is whether the GET and raise_for_status succeed.  The
\* except clause of lines 118-120 turns every failure into the result False,
\* so the call never raises
download_image(dir_exists, fs, url, ok) ==
    LET filename == DerivedFilenameOf[url]
    IN  IF PathExists(dir_exists, fs, filename)
        THEN [files |-> fs, gets |-> << >>, ret |-> TRUE, raised |-> FALSE,
              report |-> "skipped"]
        ELSE IF ok
        THEN [files |-> WriteFile(fs, filename, Body(url)), gets |-> << url >>,
              ret |-> TRUE, raised |-> FALSE, report |-> "downloaded"]
        ELSE [files |-> fs, gets |-> << url >>, ret |-> FALSE, raised |-> FALSE,
              report |-> "failed"]

(***************************************************************************)
(* main: the dedupe loop and the body of the download loop                 *)
(***************************************************************************)
\* lines 138-143, from position k on, with the set seen and the list so far
RECURSIVE DedupeFrom(_, _, _, _)
DedupeFrom(urls, k, seen, unique) ==
    IF k > Len(urls) THEN unique
    ELSE IF urls[k] \notin seen
    THEN DedupeFrom(urls, k + 1, seen \cup { urls[k] }, Append(unique, urls[k]))
    ELSE DedupeFrom(urls, k + 1, seen, unique)

Reverse(seq) == [k \in 1..Len(seq) |-> seq[Len(seq) + 1 - k]]

\* A dedupe in which the last occurrence of a URL wins
Dedupe_LastWins(urls) == Reverse(DedupeFrom(Reverse(urls), 1, {}, << >>))

Dedupe(urls) == DedupeFrom(urls, 1, {}, << >>)

\* The loop body without the check of lines 159-164, left to download_image
LoopBody_NoPrecheck(dir_exists, st, url, ok) ==
    LET r == download_image(dir_exists, st.files, url, ok)
    IN  [st EXCEPT !.files = r.files,
                   !.gets = @ \o r.gets,
                   !.success_count = IF ~r.raised /\ r.ret THEN @ + 1 ELSE @,
                   !.raised = r.raised,
                   !.log = Append(@, [url |-> url, report |-> r.report])]

\* lines 158-168 for one url; st holds files, gets, the two counters, the log
\* and whether an exception left the loop
LoopBody(dir_exists, st, url, ok) ==
    LET filename == LoopFilenameOf[url]
    IN  IF PathExists(dir_exists, st.files, filename)
        THEN [st EXCEPT !.skip_count = @ + 1,
                        !.log = Append(@, [url |-> url, report |-> "skipped"])]
        ELSE LET r == download_image(dir_exists, st.files, url, ok)
             IN  [st EXCEPT !.files = r.files,
                            !.gets = @ \o r.gets,
                            !.success_count = IF ~r.raised /\ r.ret THEN @ + 1 ELSE @,
                            !.raised = r.raised,
                            !.log = Append(@, [url |-> url, report |-> r.report])]

\* The state the loop body works on
LoopState(fs, g, sc, kc, l) ==
    [files |-> fs, gets |-> g, success_count |-> sc, skip_count |-> kc,
     raised |-> FALSE, log |-> l]

\* lines 157-168 run over urls from position k on, every GET succeeding
RECURSIVE RunLoop(_, _, _, _)
RunLoop(dir_exists, st, urls, k) ==
    IF k > Len(urls) \/ st.raised THEN st
    ELSE RunLoop(dir_exists, LoopBody(dir_exists, st, urls[k], TRUE), urls, k + 1)

(***************************************************************************)
(* Inputs                                                                  *)
(***************************************************************************)
SeqsUpTo(S, n) == UNION { [1..m -> S] : m \in 0..n }

\* The listing page: the fetch fails, the container is missing, or it holds hrefs
Pages(hrefLists) ==
    { [fetch_ok |-> FALSE, has_container |-> FALSE, hrefs |-> << >>],
      [fetch_ok |-> TRUE, has_container |-> FALSE, hrefs |-> << >>] }
    \cup { [fetch_ok |-> TRUE, has_container |-> TRUE, hrefs |-> h] : h \in hrefLists }

\* Bytes of a file left by an earlier run
OldBody == << "old" >>

\* What an earlier run may have left: nothing, an empty directory, or one
\* downloaded cover and its urls.json
Filesystems ==
    { [exists |-> FALSE, files |-> << >>, urls_json |-> [present |-> FALSE, content |-> << >>]],
      [exists |-> TRUE, files |-> << >>, urls_json |-> [present |-> FALSE, content |-> << >>]],
      [exists |-> TRUE, files |-> (<< "c", ".jpg", ".webp" >> :> OldBody),
       urls_json |-> [present |-> TRUE, content |-> << OldBody >>]] }

(***************************************************************************)
(* The run of main()                                                       *)
(***************************************************************************)
InitWith(hrefLists) ==
    /\ page \in Pages(hrefLists)
    /\ initial_fs \in Filesystems
    /\ pc = "mkdir"
    /\ output_exists = initial_fs.exists
    /\ files = initial_fs.files
    /\ urls_json = initial_fs.urls_json
    /\ raw_urls = << >>
    /\ normalized_urls = << >>
    /\ unique_urls = << >>
    /\ idx = 1
    /\ success_count = 0
    /\ skip_count = 0
    /\ gets = << >>
    /\ log = << >>

Init == InitWith(SeqsUpTo(PageHrefs, MaxLinks))

\* One gallery anchor, its href any raw URL
NormInit == InitWith({ << u >> : u \in RawURLs })

\* lines 125-126
MkDir ==
    /\ pc = "mkdir"
    /\ output_exists' = TRUE
    /\ pc' = "scrape"
    /\ UNCHANGED << page, initial_fs, files, raw_urls, normalized_urls, unique_urls,
                    urls_json, idx, success_count, skip_count, gets, log >>

\* line 129: an exception of scrape_cover_urls ends main
Scrape ==
    /\ pc = "scrape"
    /\ LET r == scrape_cover_urls(page)
       IN  /\ pc' = IF r.raised THEN "aborted" ELSE "normalize"
           /\ raw_urls' = r.urls
    /\ UNCHANGED << page, initial_fs, output_exists, files, normalized_urls, unique_urls,
                    urls_json, idx, success_count, skip_count, gets, log >>

\* lines 131-135
Normalize ==
    /\ pc = "normalize"
    /\ normalized_urls' = [k \in 1..Len(raw_urls) |-> NormalizedOf[raw_urls[k]]]
    /\ pc' = "dedupe"
    /\ UNCHANGED << page, initial_fs, output_exists, files, raw_urls, unique_urls,
                    urls_json, idx, success_count, skip_count, gets, log >>

\* lines 137-145
DedupeUrls ==
    /\ pc = "dedupe"
    /\ unique_urls' = Dedupe(normalized_urls)
    /\ pc' = "save"
    /\ UNCHANGED << page, initial_fs, output_exists, files, raw_urls, normalized_urls,
                    urls_json, idx, success_count, skip_count, gets, log >>

\* lines 147-155
SaveUrls ==
    /\ pc = "save"
    /\ urls_json' = [present |-> TRUE, content |-> unique_urls]
    /\ success_count' = 0
    /\ skip_count' = 0
    /\ idx' = 1
    /\ pc' = "download"
    /\ UNCHANGED << page, initial_fs, output_exists, files, raw_urls, normalized_urls,
                    unique_urls, gets, log >>

\* lines 157-168: one iteration of the download loop
DownloadStep ==
    /\ pc = "download"
    /\ idx <= Len(unique_urls)
    /\ \E ok \in BOOLEAN :
         LET st == LoopBody(output_exists,
                            LoopState(files, gets, success_count, skip_count, log),
                            unique_urls[idx], ok)
         IN  /\ files' = st.files
             /\ gets' = st.gets
             /\ success_count' = st.success_count
             /\ skip_count' = st.skip_count
             /\ log' = st.log
             /\ pc' = IF st.raised THEN "aborted" ELSE pc
    /\ idx' = idx + 1
    /\ UNCHANGED << page, initial_fs, output_exists, raw_urls, normalized_urls,
                    unique_urls, urls_json >>

\* line 170
Finish ==
    /\ pc = "download"
    /\ idx > Len(unique_urls)
    /\ pc' = "done"
    /\ UNCHANGED << page, initial_fs, output_exists, files, raw_urls, normalized_urls,
                    unique_urls, urls_json, idx, success_count, skip_count, gets, log >>

Next ==
    \/ MkDir
    \/ Scrape
    \/ Normalize
    \/ DedupeUrls
    \/ SaveUrls
    \/ DownloadStep
    \/ Finish

Spec == Init /\ [][Next]_vars

\* main() runs without pause: a step that can be taken is taken
FairSpec == Spec /\ WF_vars(Next)

\* The same run on a page with one gallery link, over every raw URL
NormSpec == NormInit /\ [][Next]_vars

(***************************************************************************)
(* Properties                                                              *)
(***************************************************************************)
CanonicalPrefix == BaseUrl \o FilesMarker \o StylesPrefix

\* Number of positions of s at which sub starts
Occurrences(s, sub) ==
    Cardinality({ i \in 1..(Len(s) - Len(sub) + 1) : SubSeq(s, i, i + Len(sub) - 1) = sub })

HasMarker(url) == Contains(UrlPath(Absolute(url)), FilesMarker)

IsCanonical(url) == StartsWith(url, CanonicalPrefix) /\ EndsWith(url, JpgWebp)

Range(seq) == { seq[k] : k \in 1..Len(seq) }

FinalSegment(url) == LoopFilename(url)

Normalized == pc \in { "dedupe", "save", "download", "done" }

Deduped == pc \in { "save", "download", "done" }

\* C1: every raw URL whose path holds /sites/default/files/ normalizes to a
\* string that ends in .jpg.webp and in which
\* /sites/default/files/styles/no_compression/public/ starts at exactly one place.
C1_CanonicalShape ==
    Normalized =>
        \A k \in 1..Len(raw_urls) :
            HasMarker(raw_urls[k]) =>
                /\ EndsWith(normalized_urls[k], JpgWebp)
                /\ Occurrences(normalized_urls[k], FilesMarker \o StylesPrefix) = 1

\* C2: normalizing a URL that normalize_url returned, and that is in canonical
\* form, gives the same URL again.
C2_Idempotent ==
    Normalized =>
        \A k \in 1..Len(normalized_urls) :
            IsCanonical(normalized_urls[k]) =>
                normalize_url(normalized_urls[k]) = normalized_urls[k]

\* Two URLs that differ at most in the letter case of their tokens; the
\* extensions at the end of the path are the only tokens with capitals
SameUpToExtCase(u, v) ==
    /\ Len(u) = Len(v)
    /\ \A i \in 1..Len(u) : Lower(u[i]) = Lower(v[i])

\* C3: a raw URL with /sites/default/files/ in its path and any raw URL that
\* differs from it only in the letter case of the trailing image extension
\* normalize to the same canonical URL.
C3_ExtCaseInsensitive ==
    Normalized =>
        \A k \in 1..Len(raw_urls) : \A v \in RawURLs :
            (HasMarker(raw_urls[k]) /\ SameUpToExtCase(raw_urls[k], v)) =>
                normalize_url(v) = normalized_urls[k]

\* C4: a raw URL without /sites/default/files/ in its path is kept in the URL
\* Collection, and the step of the download loop that processes it issues a GET
\* for it whenever no file with its derived filename is in the output directory.
C4_PassThroughAttempted ==
    /\ [](Deduped =>
            \A k \in 1..Len(raw_urls) :
                ~HasMarker(raw_urls[k]) => Absolute(raw_urls[k]) \in Range(unique_urls))
    /\ [][(/\ pc = "download"
           /\ idx <= Len(unique_urls)
           /\ idx' = idx + 1
           /\ ~Contains(UrlPath(unique_urls[idx]), FilesMarker)
           /\ DerivedFilename(unique_urls[idx]) \notin DOMAIN files)
          => gets' = Append(gets, unique_urls[idx])]_vars

NoFailure == \A k \in 1..Len(log) : log[k].report # "failed"

\* C5: after a run over Canonical URLs that starts with an empty output
\* directory and in which no GET fails, the directory holds as many files as the
\* URL Collection has URLs, each URL's file named by its final path segment and
\* holding that URL's bytes.
C5_OneFilePerUrl ==
    (/\ pc = "done"
     /\ DOMAIN initial_fs.files = {}
     /\ NoFailure
     /\ \A k \in 1..Len(unique_urls) : IsCanonical(unique_urls[k]))
    => /\ Cardinality(DOMAIN files) = Len(unique_urls)
       /\ \A k \in 1..Len(unique_urls) :
            /\ FinalSegment(unique_urls[k]) \in DOMAIN files
            /\ files[FinalSegment(unique_urls[k])] = Body(unique_urls[k])

\* C6: when the file named by the final path segment of the URL at hand is in
\* the output directory, the step that processes the URL issues no GET, leaves
\* the directory as it is, counts the URL as skipped and not as downloaded, and
\* reports it as skipped.
C6_SkipRule ==
    [][(/\ pc = "download"
        /\ idx <= Len(unique_urls)
        /\ idx' = idx + 1
        /\ FinalSegment(unique_urls[idx]) \in DOMAIN files)
       => /\ gets' = gets
          /\ files' = files
          /\ skip_count' = skip_count + 1
          /\ success_count' = success_count
          /\ log' = Append(log, [url |-> unique_urls[idx], report |-> "skipped"])]_vars

\* A URL was skipped because its file was there
C6_Witness ==
    \E k \in 1..Len(log) :
        /\ log[k].report = "skipped"
        /\ FinalSegment(log[k].url) \in DOMAIN files
        /\ skip_count > 0

\* The positions of seq that hold the first occurrence of their value
FirstPositions(seq) == { j \in 1..Len(seq) : \A i \in 1..(j - 1) : seq[i] # seq[j] }

\* The n-th smallest member of a set of numbers
NthOf(S, n) == CHOOSE j \in S : Cardinality({ i \in S : i < j }) = n - 1

\* C7: the URL Collection holds every distinct normalized URL exactly once, in
\* the order of first occurrence; it is what urls.json holds and what the
\* download loop goes through.
C7_DedupeFirstSeen ==
    /\ Deduped =>
        /\ Len(unique_urls) = Cardinality(FirstPositions(normalized_urls))
        /\ \A n \in 1..Len(unique_urls) :
              unique_urls[n] = normalized_urls[NthOf(FirstPositions(normalized_urls), n)]
        /\ Range(unique_urls) = Range(normalized_urls)
        /\ \A i, j \in 1..Len(unique_urls) : unique_urls[i] = unique_urls[j] => i = j
    /\ pc \in { "download", "done" } =>
        /\ urls_json = [present |-> TRUE, content |-> unique_urls]
        /\ Len(log) = idx - 1
        /\ \A k \in 1..Len(log) : log[k].url = unique_urls[k]

\* A run in which the second occurrence of a URL was dropped from behind another
C7_Witness ==
    /\ pc = "done"
    /\ Len(normalized_urls) = 3
    /\ normalized_urls[1] = normalized_urls[3]
    /\ normalized_urls[1] # normalized_urls[2]
    /\ Len(log) = 2

\* C8: a failed download leaves the loop running at the next URL and is not
\* counted as downloaded; the download loop ends, main() finishes normally, and
\* by then every URL of the Collection was processed once, in order.
C8_FailSoft ==
    /\ [][(Len(log') = Len(log) + 1 /\ Last(log').report = "failed")
          => /\ pc' = "download"
             /\ idx' = idx + 1
             /\ success_count' = success_count
             /\ files' = files]_vars
    /\ [](pc = "done" => [k \in 1..Len(log) |-> log[k].url] = unique_urls)
    /\ [](pc # "aborted" \/ gets = << >>)
    /\ (pc = "download") ~> (pc = "done")

\* A finished run in which a download failed and a later URL was processed
C8_Witness ==
    /\ pc = "done"
    /\ \E k \in 1..(Len(log) - 1) : log[k].report = "failed"

\* C9: unless the listing page was fetched and its container found, the run
\* ends in the scrape step: nothing is normalized, urls.json stays as it was and
\* no image GET is issued.
C9_ScrapeFailureAborts ==
    /\ (pc \notin { "mkdir", "scrape" } /\ ~(page.fetch_ok /\ page.has_container)) =>
        /\ pc = "aborted"
        /\ raw_urls = << >>
        /\ normalized_urls = << >>
        /\ unique_urls = << >>
        /\ urls_json = initial_fs.urls_json
        /\ gets = << >>
        /\ files = initial_fs.files
    /\ (urls_json # initial_fs.urls_json \/ gets # << >> \/ normalized_urls # << >>) =>
        (page.fetch_ok /\ page.has_container)

\* The page was fetched, its container is missing, and the run has ended with
\* the urls.json of an earlier run in place
C9_Witness ==
    /\ pc = "aborted"
    /\ page.fetch_ok
    /\ ~page.has_container
    /\ urls_json.present

Orders(n) == { f \in [1..n -> 1..n] : \A i, j \in 1..n : f[i] = f[j] => i = j }

\* C10: when no GET fails, going through the URL Collection in any other order
\* from the same directory ends with the same files and fetches the same URLs.
C10_OrderInsensitive ==
    (pc = "done" /\ NoFailure) =>
        \A f \in Orders(Len(unique_urls)) :
            LET other == RunLoop(TRUE,
                                 LoopState(initial_fs.files, << >>, 0, 0, << >>),
                                 [k \in 1..Len(unique_urls) |-> unique_urls[f[k]]], 1)
            IN  /\ other.files = files
                /\ Range(other.gets) = Range(gets)

=============================================================================
